---- MODULE Spec2Model ----
(***************************************************************************)
(* A model of the watcher/backup engine of i-saw-that (src/watcher.go).    *)
(*                                                                         *)
(* One Watcher object is modelled together with the goroutines it spawns:  *)
(* the caller of the public API, the fsnotify consumers                    *)
(* (startFSNotifyWatcher) and the debounce loops (backupLoop).  Every      *)
(* step that takes w.mu, touches a channel or reads the racy field         *)
(* w.fsnotifyWatcher is an action of its own.                              *)
(*                                                                         *)
(* w.stopChan is created in NewWatcher and never closed or sent to in      *)
(* watcher.go, so the "case <-w.stopChan" arms of both select statements   *)
(* are never enabled and have no action here.                              *)
(***************************************************************************)
EXTENDS Integers, Sequences, FiniteSets, TLC

\* ---------------------------------------------------------------- bounds
MaxStarts     == 1   \* Spec: StartWatcher calls that get past both checks
MaxTime       == 4   \* Spec: last instant of the wall clock
MaxNotify     == 2   \* Spec: file events delivered by fsnotify
MaxWait       == 2   \* largest configured wait-time, in ticks
RestartStarts == 2   \* SpecRestart: StartWatcher calls that get past both checks
RestartTime   == 3   \* SpecRestart: last instant of the wall clock

MaxDepth      == 2   \* components of a source or destination path
MaxWaitTime   == 3   \* largest waitTime argument tried with every layout
MaxWrap       == 2   \* most names of a layout that starts over
MaxInstant    == 4   \* latest wall-clock instant formatted
DebounceTime  == 5   \* last clock tick of SpecDebounce

\* ------------------------------------------------------------- constants
StartTime == 1       \* instant of construction; instant 0 is in the past
NoSub     == 0       \* w.fsnotifyWatcher == nil
NoTimer   == -1      \* timer == nil, timerChan == nil
ChanCap   == 1       \* make(chan struct{}, 1)

\* Implementations of BackupCompleteObserver.  "o1" and "o2" only count
\* their calls (SimplifiedObserver); the callback of "o3" unregisters the
\* observer: it calls RemoveObserver on the watcher that called it.
AllObservers == {"o1", "o2", "o3"}
Reentrant    == {"o3"}
Observers    == {"o1"}
Ids       == 1 .. (IF MaxStarts > RestartStarts THEN MaxStarts ELSE RestartStarts)

VARIABLES
    sourceTree,         \* doFoldersMatch: the tree at its first argument
    destinationTree,    \* doFoldersMatch: the tree at its second argument
    match,              \* doFoldersMatch: "called", or what it returned
    copyLoop,           \* the copy loop of one createBackup call
    newWatcher,         \* the NewWatcher call: "called" or "returned"
    errs,               \* the failures joined into NewWatcher's error
    stat,               \* what os.Stat and os.ReadFile find for the arguments
    Name,               \* Watcher.Name
    Source,             \* Watcher.Source, absolute, as path components
    Destination,        \* Watcher.Destination, absolute, as path components
    Enabled,            \* Watcher.Enabled
    WaitTime,           \* Watcher.WaitTime, in clock ticks
    FolderFormat,       \* Watcher.FolderFormat: [unit, wrap], see FormatAs
    Metadata,           \* Watcher.Metadata, the in-memory history
    mu,                 \* Watcher.mu: "free" or the name of its holder
    fsnotifyWatcher,    \* Watcher.fsnotifyWatcher: NoSub or a subscription
    customObservers,    \* Watcher.customObservers
    backupRequestChan,  \* number of buffered triggers (capacity ChanCap)
    subs,               \* fsnotify subscriptions: "none", "open", "closed"
    consumers,          \* goroutines running startFSNotifyWatcher
    loops,              \* goroutines running backupLoop
    api,                \* the caller of the public API: where it is in a call
    nStarted,           \* goroutine pairs spawned so far
    folders,            \* destination: folder name -> "same" | "diff" (content
                        \* compared with the source tree as it is now)
    metaFile,           \* destination/metadata.json
    CurrentCount,       \* SimplifiedObserver.CurrentCount, per observer
    now,                \* wall clock
    hist,               \* history recorded by Spec
    rhist               \* history recorded by SpecRestart

cfgVars  == <<sourceTree, destinationTree, match, copyLoop, newWatcher, errs, stat, Name, Source, Destination,
              Enabled, WaitTime, FolderFormat>>
progVars == <<Metadata, mu, fsnotifyWatcher, customObservers,
              backupRequestChan, subs, consumers, loops, api, nStarted,
              folders, metaFile, CurrentCount>>
histVars == <<hist, rhist>>
vars     == <<cfgVars, progVars, now, histVars>>

\* ---------------------------------------------------------------- helpers
Range(s) == {s[i] : i \in DOMAIN s}

\* time.Time.Format(layout): a layout names the instant with limited
\* precision, so f.unit consecutive ticks share one name; a layout without
\* its larger fields (seconds without minutes, a time of day without the
\* date) gives the same name again after f.wrap names.  wrap = 0: a layout
\* with every field up to the year.
FormatAs(f, t) ==
    IF f.wrap = 0 THEN t \div f.unit ELSE (t \div f.unit) % f.wrap

\* a layout with every field from its smallest one up to the year
Dated(u) == [unit |-> u, wrap |-> 0]

\* timestamp.Format(folderFormatSnapshot)
Format(t) == FormatAs(FolderFormat, t)

\* (NewTimer_Expired: a faulty variant whose timer is due at once)
NewTimer_Expired(t) == t

\* (faulty variants of the two checks below)
validateWaitTime_AllowZero(w) == w >= 0
validateFolderFormat_NoCheck(w, f) == TRUE

\* validateWaitTime
validateWaitTime(w) == w > 0

\* validateFolderFormat: the names of instant 0 and instant 0+waitTime differ.
validateFolderFormat(w, f) == FormatAs(f, 0) # FormatAs(f, w)

\* Backup{Timestamp, Path} as createBackup builds it
Backup(t) == [Timestamp |-> t, Path |-> Format(t)]

\* os.Stat(destinationPath) returns no error
\* (PathExists_Inverted: the faulty guard "err != nil";
\*  PathExists_Never: the faulty variant without the guard)
PathExists_Never(p) == FALSE
PathExists_Inverted(p) == p \notin DOMAIN folders
PathExists(p) == p \in DOMAIN folders

\* time.NewTimer(WaitTime): the instant at which timer.C becomes ready
NewTimer(t) == t + WaitTime

\* cp.Copy into folder p: "ok" copies the source, "partial" fails leaving a
\* folder with other content, "none" fails before the folder exists.
CopyOutcomes == {"ok", "partial", "none"}
Copy(p, outcome) ==
    IF outcome = "none" THEN folders
    ELSE [q \in DOMAIN folders \cup {p} |->
            IF q = p THEN (IF outcome = "ok" THEN "same" ELSE "diff")
            ELSE folders[q]]

\* doFoldersMatch(w.Source, latestBackupPath) as createBackupIfBackupIsOutdated
\* calls it: an error when the folder cannot be listed.
LatestBackupMatches ==
    LET latest == Metadata[Len(Metadata)].Path
    IN  IF latest \notin DOMAIN folders THEN "error"
        ELSE IF folders[latest] = "same" THEN "match" ELSE "mismatch"

\* createBackupIfBackupIsOutdated: is a snapshot request sent?
\* (NeedsBackup_Negated: the faulty test "if foldersMatch")
NeedsBackup_Negated == Len(Metadata) = 0 \/ LatestBackupMatches = "match"
NeedsBackup == Len(Metadata) = 0 \/ LatestBackupMatches = "mismatch"

\* StartWatcher lines 121-127: the error of the two checks, "none" if passed
\* (StartError_NoEnabledCheck: the faulty variant without lines 121-123)
StartError_NoEnabledCheck ==
    IF fsnotifyWatcher # NoSub THEN "already running" ELSE "none"
StartError ==
    IF ~Enabled THEN "disabled"
    ELSE IF fsnotifyWatcher # NoSub THEN "already running" ELSE "none"

\* notifyObservers: one pass over a copy of the registry
\* (NotifyPass_Nobody: the faulty variant that calls no observer)
NotifyPass_Nobody(cnt, obs) == cnt
NotifyPass(cnt, obs) ==
    [o \in AllObservers |->
        cnt[o] + Cardinality({i \in DOMAIN obs : obs[i] = o})]

\* a goroutine dereferenced a nil *fsnotify.Watcher
Crashed == \E c \in Ids : consumers[c].pc = "panic"

\* an unrecovered panic in any goroutine ends the process
Alive == ~Crashed

\* loop l is inside createBackup, past the collision guard
InBackup(l) ==
    loops[l].pc \in {"copy", "append", "save", "write", "notify"}

\* loop l waits in its select with a timer armed
Armed(l) == loops[l].pc = "select" /\ loops[l].timer # NoTimer

\* history: no attempt is being followed
NotBusy == [on |-> FALSE, orig |-> {}]

LoopIdle == [pc |-> "select", timer |-> NoTimer, ts |-> 0, data |-> 0]

\* ------------------------------------------------------------------- Init
\* A directory that lists and holds nothing
EmptyDir == [type |-> "dir", list |-> "ok", kids |-> <<>>]

\* No doFoldersMatch call and no copy loop is looked at
NoCompare ==
    /\ sourceTree = EmptyDir
    /\ destinationTree = EmptyDir
    /\ match = "none"

NoCopy == copyLoop = [pc |-> "idle", tries |-> 0, failed |-> 0]

Init ==
    /\ NoCompare
    /\ NoCopy
    /\ newWatcher = "returned"
    /\ errs = {}
    /\ stat = [folderFormat |-> "dir", source |-> "dir",
               destination |-> "dir", metadata |-> "valid"]
    /\ Name = "n"
    /\ Source = <<"a">>
    /\ Destination = <<"..b">>
    /\ Enabled \in BOOLEAN
    /\ WaitTime \in 1 .. MaxWait
    /\ FolderFormat \in {Dated(u) : u \in 1 .. MaxWait}
    /\ validateWaitTime(WaitTime)
    /\ validateFolderFormat(WaitTime, FolderFormat)
    /\ \E old \in {"empty", "match", "diverged", "missing"} :
          /\ Metadata = IF old = "empty" THEN <<>> ELSE <<Backup(0)>>
          /\ folders  = IF old = "match" THEN (Format(0) :> "same")
                        ELSE IF old = "diverged" THEN (Format(0) :> "diff")
                        ELSE <<>>
    /\ metaFile = Metadata
    /\ mu = "free"
    /\ fsnotifyWatcher = NoSub
    /\ customObservers = <<>>
    /\ backupRequestChan = 0
    /\ subs = [s \in Ids |-> "none"]
    /\ consumers = [c \in Ids |-> [pc |-> "none", sub |-> NoSub]]
    /\ loops = [l \in Ids |-> [pc |-> "none", timer |-> NoTimer, ts |-> 0,
                             data |-> 0]]
    /\ api = "idle"
    /\ nStarted = 0
    /\ CurrentCount = [o \in AllObservers |-> 0]
    /\ now = StartTime
    /\ hist = [ret |-> "none", first |-> "none", sent |-> FALSE,
               notified |-> 0, trig |-> 0, last |-> {},
               spaced |-> TRUE, clean |-> TRUE, watching |-> {},
               passed |-> 0, arg |-> "none",
               consumed |-> [l \in Ids |-> {}], owed |-> FALSE,
               over |-> {}, saved |-> TRUE, calls |-> <<>>]
    /\ rhist = [running |-> FALSE, burst |-> FALSE, age |-> 0,
                busy |-> NotBusy, aborted |-> FALSE]

\* ------------------------------------------------------------ StartWatcher
\* Lines 117-132: lock, the two checks, and the two go statements.  A call
\* that fails a check returns at once (deferred unlock).
StartWatcher(limit) ==
    /\ api = "idle" /\ mu = "free"
    /\ IF StartError # "none"
         THEN UNCHANGED <<mu, api, consumers, loops, nStarted>>
         ELSE /\ nStarted < limit
              /\ mu' = "StartWatcher"
              /\ api' = "outdated"
              /\ consumers' = [consumers EXCEPT ![nStarted + 1].pc = "new"]
              /\ loops' = [loops EXCEPT ![nStarted + 1].pc = "select"]
              /\ nStarted' = nStarted + 1
    /\ UNCHANGED <<cfgVars, now, Metadata, fsnotifyWatcher, customObservers,
                   backupRequestChan, subs, folders, metaFile, CurrentCount>>

\* createBackupIfBackupIsOutdated up to its decision, under w.mu: either a
\* request has to be sent, or the call returns (nil or the compare error).
StartOutdated ==
    /\ api = "outdated"
    /\ IF NeedsBackup
         THEN api' = "send" /\ UNCHANGED mu
         ELSE api' = "idle" /\ mu' = "free"
    /\ UNCHANGED <<cfgVars, now, Metadata, fsnotifyWatcher, customObservers,
                   backupRequestChan, subs, consumers, loops, nStarted,
                   folders, metaFile, CurrentCount>>

\* w.backupRequestChan <- struct{}{} (lines 323, 336), return nil and the
\* deferred unlock.  The send blocks while the buffer is full.
StartSend ==
    /\ api = "send"
    /\ backupRequestChan < ChanCap
    /\ backupRequestChan' = backupRequestChan + 1
    /\ api' = "idle"
    /\ mu' = "free"
    /\ UNCHANGED <<cfgVars, now, Metadata, fsnotifyWatcher, customObservers,
                   subs, consumers, loops, nStarted, folders, metaFile,
                   CurrentCount>>

\* ------------------------------------------------------------- StopWatcher
\* (StopWatcher_NoClear: the faulty variant without line 155)
StopWatcher_NoClear ==
    /\ api = "idle" /\ mu = "free"
    /\ IF fsnotifyWatcher = NoSub
         THEN UNCHANGED subs
         ELSE subs' = [subs EXCEPT ![fsnotifyWatcher] = "closed"]
    /\ UNCHANGED <<cfgVars, now, Metadata, mu, fsnotifyWatcher,
                   customObservers, backupRequestChan, consumers, loops, api,
                   nStarted, folders, metaFile, CurrentCount>>

\* (StopWatcher_Forget: a faulty variant that also drops the history)
StopWatcher_Forget ==
    /\ api = "idle" /\ mu = "free"
    /\ IF fsnotifyWatcher = NoSub
         THEN UNCHANGED <<subs, fsnotifyWatcher>>
         ELSE /\ subs' = [subs EXCEPT ![fsnotifyWatcher] = "closed"]
              /\ fsnotifyWatcher' = NoSub
    /\ Metadata' = <<>>
    /\ UNCHANGED <<cfgVars, now, mu, customObservers, backupRequestChan,
                   consumers, loops, api, nStarted, folders, metaFile,
                   CurrentCount>>

StopWatcher ==
    /\ api = "idle" /\ mu = "free"
    /\ IF fsnotifyWatcher = NoSub
         THEN UNCHANGED <<subs, fsnotifyWatcher>>
         ELSE /\ subs' = [subs EXCEPT ![fsnotifyWatcher] = "closed"]
              /\ fsnotifyWatcher' = NoSub
    /\ UNCHANGED <<cfgVars, now, Metadata, mu, customObservers,
                   backupRequestChan, consumers, loops, api, nStarted,
                   folders, metaFile, CurrentCount>>

\* --------------------------------------------------------------- observers
\* RemoveObserver lines 298-302: the first entry equal to o is cut out
RemoveFirst(s, o) ==
    LET at == {i \in DOMAIN s : s[i] = o}
    IN  IF at = {} THEN s
        ELSE LET k == CHOOSE i \in at : \A j \in at : i <= j
             IN  SubSeq(s, 1, k - 1) \o SubSeq(s, k + 1, Len(s))

\* (AddObserver_NoCheck: the faulty variant without lines 286-290)
AddObserver_NoCheck(o) ==
    /\ api = "idle" /\ mu = "free"
    /\ customObservers' = Append(customObservers, o)
    /\ UNCHANGED <<cfgVars, now, Metadata, mu, fsnotifyWatcher,
                   backupRequestChan, subs, consumers, loops, api, nStarted,
                   folders, metaFile, CurrentCount>>

AddObserver(o) ==
    /\ api = "idle" /\ mu = "free"
    /\ customObservers' = IF o \in Range(customObservers)
                            THEN customObservers
                            ELSE Append(customObservers, o)
    /\ UNCHANGED <<cfgVars, now, Metadata, mu, fsnotifyWatcher,
                   backupRequestChan, subs, consumers, loops, api, nStarted,
                   folders, metaFile, CurrentCount>>

RemoveObserver(o) ==
    /\ api = "idle" /\ mu = "free"
    /\ customObservers' = RemoveFirst(customObservers, o)
    /\ UNCHANGED <<cfgVars, now, Metadata, mu, fsnotifyWatcher,
                   backupRequestChan, subs, consumers, loops, api, nStarted,
                   folders, metaFile, CurrentCount>>

\* ----------------------------------------------------- startFSNotifyWatcher
\* Line 162: w.fsnotifyWatcher, err = fsnotify.NewWatcher(), written without
\* holding w.mu.
ConsumerInit(c) ==
    /\ consumers[c].pc = "new"
    /\ fsnotifyWatcher' = c
    /\ subs' = [subs EXCEPT ![c] = "open"]
    /\ consumers' = [consumers EXCEPT ![c].pc = "loop"]
    /\ UNCHANGED <<cfgVars, now, Metadata, mu, customObservers,
                   backupRequestChan, loops, api, nStarted, folders, metaFile,
                   CurrentCount>>

\* Lines 170-174: w.fsnotifyWatcher is read again (for Add, and for the
\* channel operands of the select); a nil pointer is dereferenced if
\* StopWatcher cleared the field in between.
ConsumerSelect(c) ==
    /\ consumers[c].pc = "loop"
    /\ consumers' = [consumers EXCEPT
          ![c] = IF fsnotifyWatcher = NoSub
                   THEN [pc |-> "panic", sub |-> NoSub]
                   ELSE [pc |-> "select", sub |-> fsnotifyWatcher]]
    /\ UNCHANGED <<cfgVars, now, Metadata, mu, fsnotifyWatcher,
                   customObservers, backupRequestChan, subs, loops, api,
                   nStarted, folders, metaFile, CurrentCount>>

\* Line 174 with ok: a file under the source changed (no existing copy equals
\* the source any more) and fsnotify hands the event to the consumer.
ConsumerEvent(c) ==
    /\ consumers[c].pc = "select"
    /\ subs[consumers[c].sub] = "open"
    /\ folders' = [p \in DOMAIN folders |-> "diff"]
    /\ consumers' = [consumers EXCEPT ![c].pc = "send"]
    /\ UNCHANGED <<cfgVars, now, Metadata, mu, fsnotifyWatcher,
                   customObservers, backupRequestChan, subs, loops, api,
                   nStarted, metaFile, CurrentCount>>

\* Line 184: w.backupRequestChan <- struct{}{}
ConsumerSend(c) ==
    /\ consumers[c].pc = "send"
    /\ backupRequestChan < ChanCap
    /\ backupRequestChan' = backupRequestChan + 1
    /\ consumers' = [consumers EXCEPT ![c].pc = "loop"]
    /\ UNCHANGED <<cfgVars, now, Metadata, mu, fsnotifyWatcher,
                   customObservers, subs, loops, api, nStarted, folders,
                   metaFile, CurrentCount>>

\* Lines 176-178, 187-189: Close() closed the channels of the subscription.
ConsumerClosed(c) ==
    /\ consumers[c].pc = "select"
    /\ subs[consumers[c].sub] = "closed"
    /\ consumers' = [consumers EXCEPT ![c].pc = "done"]
    /\ UNCHANGED <<cfgVars, now, Metadata, mu, fsnotifyWatcher,
                   customObservers, backupRequestChan, subs, loops, api,
                   nStarted, folders, metaFile, CurrentCount>>

\* ---------------------------------------------------------------- backupLoop
\* case <-w.backupRequestChan (lines 209-215)
LoopRequest(l) ==
    /\ loops[l].pc = "select"
    /\ backupRequestChan > 0
    /\ backupRequestChan' = backupRequestChan - 1
    /\ loops' = [loops EXCEPT ![l].timer = NewTimer(now)]
    /\ UNCHANGED <<cfgVars, now, Metadata, mu, fsnotifyWatcher,
                   customObservers, subs, consumers, api, nStarted, folders,
                   metaFile, CurrentCount>>

\* case <-timerChan (lines 219-221): the loop enters createBackup.  The
\* expired timer is spent: nothing reads timer or timerChan before they are
\* reset on lines 224-225.
LoopTimer(l) ==
    /\ Armed(l)
    /\ now >= loops[l].timer
    /\ loops' = [loops EXCEPT ![l] = [LoopIdle EXCEPT !.pc = "lock"]]
    /\ UNCHANGED <<cfgVars, now, Metadata, mu, fsnotifyWatcher,
                   customObservers, backupRequestChan, subs, consumers, api,
                   nStarted, folders, metaFile, CurrentCount>>

\* createBackup lines 233-247: the configuration is read under w.mu, the
\* instant is taken, and the collision guard either ends the attempt (back
\* in the loop, lines 224-225) or lets it through.
\* (CreateBackupBegin_NotifyAnyway: a faulty variant that notifies the
\* observers of an attempt ended by the collision guard)
CreateBackupBegin_NotifyAnyway(l) ==
    /\ loops[l].pc = "lock"
    /\ mu = "free"
    /\ loops' = [loops EXCEPT ![l] =
          IF PathExists(Format(now)) THEN [LoopIdle EXCEPT !.pc = "notify"]
          ELSE [pc |-> "copy", timer |-> NoTimer, ts |-> now, data |-> 0]]
    /\ UNCHANGED <<cfgVars, now, Metadata, mu, fsnotifyWatcher,
                   customObservers, backupRequestChan, subs, consumers, api,
                   nStarted, folders, metaFile, CurrentCount>>

CreateBackupBegin(l) ==
    /\ loops[l].pc = "lock"
    /\ mu = "free"
    /\ loops' = [loops EXCEPT ![l] =
          IF PathExists(Format(now)) THEN LoopIdle
          ELSE [pc |-> "copy", timer |-> NoTimer, ts |-> now, data |-> 0]]
    /\ UNCHANGED <<cfgVars, now, Metadata, mu, fsnotifyWatcher,
                   customObservers, backupRequestChan, subs, consumers, api,
                   nStarted, folders, metaFile, CurrentCount>>

\* Lines 252-259: the retry loop around cp.Copy, by its overall outcome.
\* (CreateBackupCopy_GiveUp: the faulty variant that returns when every
\*  try has failed)
CreateBackupCopy_GiveUp(l, outcome) ==
    /\ loops[l].pc = "copy"
    /\ folders' = Copy(Format(loops[l].ts), outcome)
    /\ loops' = [loops EXCEPT ![l] = IF outcome = "ok"
                                       THEN [@ EXCEPT !.pc = "append"]
                                       ELSE LoopIdle]
    /\ UNCHANGED <<cfgVars, now, Metadata, mu, fsnotifyWatcher,
                   customObservers, backupRequestChan, subs, consumers, api,
                   nStarted, metaFile, CurrentCount>>

CreateBackupCopy(l, outcome) ==
    /\ loops[l].pc = "copy"
    /\ folders' = Copy(Format(loops[l].ts), outcome)
    /\ loops' = [loops EXCEPT ![l].pc = "append"]
    /\ UNCHANGED <<cfgVars, now, Metadata, mu, fsnotifyWatcher,
                   customObservers, backupRequestChan, subs, consumers, api,
                   nStarted, metaFile, CurrentCount>>

\* Lines 262-269
\* (CreateBackupAppend_Skip: the faulty variant that leaves the append for
\*  later)
CreateBackupAppend_Skip(l) ==
    /\ loops[l].pc = "append"
    /\ mu = "free"
    /\ loops' = [loops EXCEPT ![l].pc = "save"]
    /\ UNCHANGED <<cfgVars, now, Metadata, mu, fsnotifyWatcher,
                   customObservers, backupRequestChan, subs, consumers, api,
                   nStarted, folders, metaFile, CurrentCount>>

\* (CreateBackupAppend_Prepend: a faulty variant that puts the new record
\* first)
CreateBackupAppend_Prepend(l) ==
    /\ loops[l].pc = "append"
    /\ mu = "free"
    /\ Metadata' = <<Backup(loops[l].ts)>> \o Metadata
    /\ loops' = [loops EXCEPT ![l].pc = "save"]
    /\ UNCHANGED <<cfgVars, now, mu, fsnotifyWatcher, customObservers,
                   backupRequestChan, subs, consumers, api, nStarted, folders,
                   metaFile, CurrentCount>>

\* (CreateBackupAppend_Late: a faulty variant that takes the instant of the
\* record when the copy is over)
CreateBackupAppend_Late(l) ==
    /\ loops[l].pc = "append"
    /\ mu = "free"
    /\ Metadata' = Append(Metadata, Backup(now))
    /\ loops' = [loops EXCEPT ![l].pc = "save"]
    /\ UNCHANGED <<cfgVars, now, mu, fsnotifyWatcher, customObservers,
                   backupRequestChan, subs, consumers, api, nStarted, folders,
                   metaFile, CurrentCount>>

CreateBackupAppend(l) ==
    /\ loops[l].pc = "append"
    /\ mu = "free"
    /\ Metadata' = Append(Metadata, Backup(loops[l].ts))
    /\ loops' = [loops EXCEPT ![l].pc = "save"]
    /\ UNCHANGED <<cfgVars, now, mu, fsnotifyWatcher, customObservers,
                   backupRequestChan, subs, consumers, api, nStarted, folders,
                   metaFile, CurrentCount>>

\* Line 274 into saveMetadata line 99: json.MarshalIndent(w.Metadata) reads
\* the history as it is now, without w.mu; data is the number of records
\* in the bytes it returns (the history only grows at its end).
CreateBackupMarshal(l) ==
    /\ loops[l].pc = "save"
    /\ loops' = [loops EXCEPT ![l].pc = "write", ![l].data = Len(Metadata)]
    /\ UNCHANGED <<cfgVars, now, Metadata, mu, fsnotifyWatcher,
                   customObservers, backupRequestChan, subs, consumers, api,
                   nStarted, folders, metaFile, CurrentCount>>

\* saveMetadata lines 104-108 and createBackup lines 274-276: os.WriteFile
\* replaces the file by the marshalled bytes; a write error is only logged.
\* (CreateBackupSave_Empty: a faulty variant that writes an empty history)
CreateBackupSave_Empty(l, written) ==
    /\ loops[l].pc = "write"
    /\ metaFile' = IF written THEN <<>> ELSE metaFile
    /\ loops' = [loops EXCEPT ![l].pc = "notify", ![l].data = 0]
    /\ UNCHANGED <<cfgVars, now, Metadata, mu, fsnotifyWatcher,
                   customObservers, backupRequestChan, subs, consumers, api,
                   nStarted, folders, CurrentCount>>

CreateBackupSave(l, written) ==
    /\ loops[l].pc = "write"
    /\ metaFile' = IF written THEN SubSeq(Metadata, 1, loops[l].data)
                    ELSE metaFile
    /\ loops' = [loops EXCEPT ![l].pc = "notify", ![l].data = 0]
    /\ UNCHANGED <<cfgVars, now, Metadata, mu, fsnotifyWatcher,
                   customObservers, backupRequestChan, subs, consumers, api,
                   nStarted, folders, CurrentCount>>

\* notifyObservers lines 311-316: the callbacks a pass over the registry obs
\* enters, in the order it enters them.  The loop goes through the copy of
\* the registry from its first entry on and calls one callback after the
\* other; it gets no further than a callback that does not return.
Entered(obs) ==
    IF \A i \in DOMAIN obs : obs[i] \notin Reentrant THEN obs
    ELSE LET k == CHOOSE i \in DOMAIN obs :
                     /\ obs[i] \in Reentrant
                     /\ \A j \in 1 .. i - 1 : obs[j] \notin Reentrant
         IN  SubSeq(obs, 1, k)

\* saveMetadata as a whole: CreateBackupMarshal(l) followed at once by
\* CreateBackupSave(l, written), with no step of another goroutine between
\* line 99 and line 106.  Nothing but the content of the metadata file
\* depends on what happens between the two.
CreateBackupSaveAtOnce(l, written) ==
    /\ loops[l].pc = "save"
    /\ metaFile' = IF written THEN Metadata ELSE metaFile
    /\ loops' = [loops EXCEPT ![l].pc = "notify"]
    /\ UNCHANGED <<cfgVars, now, Metadata, mu, fsnotifyWatcher,
                   customObservers, backupRequestChan, subs, consumers, api,
                   nStarted, folders, CurrentCount>>

\* Line 279 and lines 224-225: notifyObservers, then back in the loop.
\* w.mu is held from line 308 until the function returns (defer), over
\* every callback; with callbacks that return the pass is one step.
CreateBackupNotify(l) ==
    /\ loops[l].pc = "notify"
    /\ mu = "free"
    /\ Range(customObservers) \cap Reentrant = {}
    /\ CurrentCount' = NotifyPass(CurrentCount, customObservers)
    /\ loops' = [loops EXCEPT ![l] = LoopIdle]
    /\ UNCHANGED <<cfgVars, now, Metadata, mu, fsnotifyWatcher,
                   customObservers, backupRequestChan, subs, consumers, api,
                   nStarted, folders, metaFile>>

\* notifyObservers when the registry holds an observer whose callback calls
\* RemoveObserver: the observers ahead of it are called, its callback is
\* entered, and RemoveObserver line 295 asks for w.mu, which this goroutine
\* holds until notifyObservers returns.  sync.Mutex is not reentrant: the
\* Lock needs w.mu free, so no step leaves "relock".
CreateBackupNotifyStuck(l) ==
    /\ loops[l].pc = "notify"
    /\ mu = "free"
    /\ Range(customObservers) \cap Reentrant # {}
    /\ CurrentCount' = NotifyPass(CurrentCount, Entered(customObservers))
    /\ mu' = "notifyObservers"
    /\ loops' = [loops EXCEPT ![l].pc = "relock"]
    /\ UNCHANGED <<cfgVars, now, Metadata, fsnotifyWatcher, customObservers,
                   backupRequestChan, subs, consumers, api, nStarted, folders,
                   metaFile>>

\* --------------------------------------------------------------- environment
Tick(limit) ==
    /\ now < limit
    /\ now' = now + 1
    /\ UNCHANGED <<cfgVars, progVars>>

\* ------------------------------------------------------ derived state facts
\* Backups appended since construction (loaded records are older)
Appended == Cardinality({i \in DOMAIN Metadata :
                            Metadata[i].Timestamp >= StartTime})

\* nothing is pending or in flight between the consumers and the loops
Idle ==
    /\ backupRequestChan = 0
    /\ \A c \in Ids : consumers[c].pc # "send"
    /\ \A l \in Ids : loops[l].pc \in {"none", "select"} /\ ~Armed(l)

\* Idle, and no API call is under way
Quiet == Idle /\ api = "idle"

InFlight == {l \in Ids : InBackup(l)}

\* ------------------------------------------------- history recorded by Spec
\* ret      result of the last StartWatcher / StopWatcher call
\* first    what createBackupIfBackupIsOutdated found at the first start
\* sent     StartWatcher sent a snapshot request
\* notified file events received so far
\* trig     snapshot requests issued so far (start request and file events),
\*          counted while spaced or clean
\* last     the instant of the latest request (none: empty), while spaced
\* spaced   every request came more than WaitTime after the previous one
\* clean    every request was issued while nothing was pending or in flight
\* watching observers registered since before the start
\* passed   attempts that got past the collision guard
\* consumed per loop, the instants at which it took a request since its
\*          last attempt began (SpecDebounce)
\* owed     a file event was received and no attempt has started since
\*          every request sent so far was taken (SpecDebounce)
\* arg      the observer of the last AddObserver / RemoveObserver call
\*          (SpecObservers, where ret is the result of that call)
Keep == UNCHANGED histVars

Trigger(h, isolated) ==
    LET sp == h.spaced /\ \A t \in h.last : now > t + WaitTime
        cl == h.clean /\ isolated
    IN  [h EXCEPT !.spaced = sp, !.clean = cl,
                  !.last = IF sp THEN {now} ELSE {},
                  !.trig = IF sp \/ cl THEN @ + 1 ELSE 0]

LogStartWatcher ==
    /\ hist' = [hist EXCEPT
          !.ret = IF StartError # "none" THEN StartError ELSE @,
          !.watching = IF StartError = "none" /\ nStarted = 0
                         THEN Range(customObservers) ELSE @]
    /\ UNCHANGED rhist

LogStartOutdated ==
    /\ hist' = [hist EXCEPT
          !.first = IF nStarted # 1 THEN @
                    ELSE IF Len(Metadata) = 0 THEN "empty"
                    ELSE LatestBackupMatches,
          !.ret = IF api' # "idle" THEN @
                  ELSE IF LatestBackupMatches = "error" THEN "compare error"
                  ELSE "nil"]
    /\ UNCHANGED rhist

LogStartSend ==
    /\ hist' = [Trigger(hist, Idle) EXCEPT !.ret = "nil", !.sent = TRUE]
    /\ UNCHANGED rhist

LogStopWatcher ==
    /\ hist' = [hist EXCEPT
          !.ret = IF fsnotifyWatcher = NoSub THEN "nil, no-op" ELSE "closed"]
    /\ UNCHANGED rhist

LogRemoveObserver(o) ==
    /\ hist' = [hist EXCEPT !.watching = @ \ {o}]
    /\ UNCHANGED rhist

LogBegin ==
    /\ hist' = [hist EXCEPT
          !.passed = IF Format(now) \in DOMAIN folders THEN @ ELSE @ + 1]
    /\ UNCHANGED rhist

LogEvent ==
    /\ hist' = [Trigger(hist, Idle /\ api # "send")
                  EXCEPT !.notified = @ + 1]
    /\ UNCHANGED rhist

\* -------------------------------------------------------------------- Spec
\* One watcher, started at most MaxStarts times, with every configuration
\* and every kind of loaded history.
CallStartWatcher == StartWatcher(MaxStarts) /\ LogStartWatcher
CallStopWatcher  == StopWatcher /\ LogStopWatcher

Next ==
    \/ Alive /\ CallStartWatcher
    \/ Alive /\ StartOutdated /\ LogStartOutdated
    \/ Alive /\ StartSend /\ LogStartSend
    \/ Alive /\ CallStopWatcher
    \/ \E o \in Observers : Alive /\ AddObserver(o) /\ Keep
    \/ \E o \in Observers : Alive /\ RemoveObserver(o) /\ LogRemoveObserver(o)
    \/ \E c \in Ids : Alive /\ ConsumerInit(c) /\ Keep
    \/ \E c \in Ids : Alive /\ ConsumerSelect(c) /\ Keep
    \/ \E c \in Ids : /\ Alive /\ hist.notified < MaxNotify
                      /\ ConsumerEvent(c) /\ LogEvent
    \/ \E c \in Ids : Alive /\ ConsumerSend(c) /\ Keep
    \/ \E c \in Ids : Alive /\ ConsumerClosed(c) /\ Keep
    \/ \E l \in Ids : Alive /\ LoopRequest(l) /\ Keep
    \/ \E l \in Ids : Alive /\ LoopTimer(l) /\ Keep
    \/ \E l \in Ids : Alive /\ CreateBackupBegin(l) /\ LogBegin
    \/ \E l \in Ids, r \in CopyOutcomes :
          Alive /\ CreateBackupCopy(l, r) /\ Keep
    \/ \E l \in Ids : Alive /\ CreateBackupAppend(l) /\ Keep
    \/ \E l \in Ids, b \in BOOLEAN :
          Alive /\ CreateBackupSave(l, b) /\ Keep
    \/ \E l \in Ids : Alive /\ CreateBackupMarshal(l) /\ Keep
    \/ \E l \in Ids : Alive /\ CreateBackupNotify(l) /\ Keep
    \/ Alive /\ Tick(MaxTime) /\ Keep

Spec == Init /\ [][Next]_vars

\* ------------------------------------------ history recorded by SpecRestart
\* running  a StartWatcher call returned nil and StopWatcher was not called
\*          since
\* burst    a burst of file events is followed: its first event arrived
\*          while the watcher was running and Quiet, every later one less
\*          than WaitTime after the one before
\* age      ticks since the latest event of the burst, up to WaitTime
\* busy     on: a file event arrived while one attempt, and nothing else,
\*          was under way, and no file event has arrived after that attempt
\*          ended; orig: the loop of that attempt, while the attempt runs
\* aborted  some attempt was ended by the collision guard
\* A call of StartWatcher or StopWatcher ends what burst and busy follow.

\* loop l has a timer armed or is inside createBackup
Engaged(l) == Armed(l) \/ loops[l].pc = "lock" \/ InBackup(l)

OthersIdle ==
    /\ backupRequestChan = 0
    /\ api # "send"
    /\ \A c \in Ids : consumers[c].pc # "send"
    /\ \A l \in Ids : ~Armed(l) /\ loops[l].pc # "lock"

RLogStartOutdated ==
    /\ rhist' = [running |-> IF api' = "idle" /\ LatestBackupMatches # "error"
                              THEN TRUE ELSE rhist.running,
                 burst |-> FALSE, age |-> 0, busy |-> NotBusy,
                 aborted |-> rhist.aborted]
    /\ UNCHANGED hist

RLogStartSend ==
    /\ rhist' = [running |-> TRUE, burst |-> FALSE, age |-> 0, busy |-> NotBusy,
                 aborted |-> rhist.aborted]
    /\ UNCHANGED hist

RLogStopWatcher ==
    /\ rhist' = [running |-> FALSE, burst |-> FALSE, age |-> 0, busy |-> NotBusy,
                 aborted |-> rhist.aborted]
    /\ UNCHANGED hist

RLogEvent ==
    /\ rhist' = [rhist EXCEPT
          !.burst = IF @ /\ rhist.age < WaitTime THEN TRUE
                    ELSE rhist.running /\ Quiet,
          !.age = 0,
          !.busy = IF @.on /\ @.orig # {} THEN @
                   ELSE IF Cardinality(InFlight) = 1 /\ OthersIdle
                     THEN [on |-> TRUE, orig |-> InFlight]
                   ELSE NotBusy]
    /\ UNCHANGED hist

RLogNotify(l) ==
    /\ rhist' = [rhist EXCEPT !.busy.orig = @ \ {l}]
    /\ UNCHANGED hist

RLogBegin ==
    /\ rhist' = [rhist EXCEPT
          !.aborted = @ \/ Format(now) \in DOMAIN folders]
    /\ UNCHANGED hist

RLogTick ==
    /\ rhist' = [rhist EXCEPT
          !.age = IF rhist.burst /\ @ < WaitTime THEN @ + 1 ELSE @]
    /\ UNCHANGED hist

\* ------------------------------------------------------------- SpecRestart
\* An enabled watcher with the shortest wait-time and no loaded history,
\* started up to RestartStarts times; every copy succeeds and every save is
\* written.
InitRestart == Init /\ Enabled /\ WaitTime = 1 /\ Metadata = <<>>

NextRestart ==
    \/ Alive /\ StartWatcher(RestartStarts) /\ Keep
    \/ Alive /\ StartOutdated /\ RLogStartOutdated
    \/ Alive /\ StartSend /\ RLogStartSend
    \/ Alive /\ StopWatcher /\ RLogStopWatcher
    \/ \E c \in Ids : Alive /\ ConsumerInit(c) /\ Keep
    \/ \E c \in Ids : Alive /\ ConsumerSelect(c) /\ Keep
    \/ \E c \in Ids : Alive /\ ConsumerEvent(c) /\ RLogEvent
    \/ \E c \in Ids : Alive /\ ConsumerSend(c) /\ Keep
    \/ \E c \in Ids : Alive /\ ConsumerClosed(c) /\ Keep
    \/ \E l \in Ids : Alive /\ LoopRequest(l) /\ Keep
    \/ \E l \in Ids : Alive /\ LoopTimer(l) /\ Keep
    \/ \E l \in Ids : Alive /\ CreateBackupBegin(l) /\ RLogBegin
    \/ \E l \in Ids : Alive /\ CreateBackupCopy(l, "ok") /\ Keep
    \/ \E l \in Ids : Alive /\ CreateBackupAppend(l) /\ Keep
    \/ \E l \in Ids : Alive /\ CreateBackupSaveAtOnce(l, TRUE) /\ Keep
    \/ \E l \in Ids : Alive /\ CreateBackupNotify(l) /\ RLogNotify(l)
    \/ Alive /\ Tick(RestartTime) /\ RLogTick

SpecRestart == InitRestart /\ [][NextRestart]_vars

\* ================================================================ claims
\* C1 (as stated: a burst of file events, each less than the wait-time after
\* the one before, received by a running watcher with nothing under way,
\* leads to exactly one snapshot attempt).  While such a burst is followed,
\* at most one debounce loop has a timer armed for it or an attempt running.
C1_OneAttemptPerBurst ==
    rhist.burst => Cardinality({l \in Ids : Engaged(l)}) <= 1

\* C3 (as stated: file events arriving while an attempt runs lead, once it
\* has ended, to exactly one more Backup).  Beside the attempt that was
\* running when the events arrived, at most one loop has a timer armed or an
\* attempt running.
C3_OneAdditionalAttempt ==
    rhist.busy.on =>
        Cardinality({l \in Ids \ rhist.busy.orig : Engaged(l)}) <= 1

\* C4 (as stated: at most one createBackup executes at any instant, whatever
\* the sequence of starts, stops, file events and timer expiries).
C4_OneAttemptAtATime == Cardinality(InFlight) <= 1

\* C5 (as stated: the Backup records carry strictly increasing timestamps in
\* the order in which they were appended).
C5_TimestampsIncrease ==
    \A i \in 1 .. Len(Metadata) - 1 :
        Metadata[i].Timestamp < Metadata[i + 1].Timestamp

\* C9 (as stated: once StartWatcher has succeeded and StopWatcher has not
\* been called since, no step starts further background tasks, under every
\* interleaving with the tasks already started).
C9_NoSecondStart == [][rhist.running => nStarted' = nStarted]_vars

\* C4: two debounce loops are inside createBackup at once, past the
\* collision guard
C4_Concurrent == Cardinality(InFlight) >= 2

C6_InitialBackupOnce ==
    (nStarted = 1 /\ hist.first = "empty" /\ hist.notified = 0) =>
        /\ Appended <= 1
        /\ \A o \in Observers : CurrentCount[o] <= 1
        /\ api = "idle" => hist.sent
        /\ Quiet => /\ Appended = 1
                    /\ \A o \in hist.watching : CurrentCount[o] = 1

C6_Witness ==
    /\ nStarted = 1 /\ hist.first = "empty" /\ hist.notified = 0
    /\ Quiet /\ Appended = 1 /\ now = MaxTime
    /\ "o1" \in hist.watching /\ CurrentCount["o1"] = 1

C7_WitnessMatch ==
    /\ nStarted = 1 /\ hist.notified = 0 /\ hist.first = "match"
    /\ Quiet /\ now = MaxTime /\ Appended = 0

\* C8 (StartWatcher on a disabled watcher returns the "disabled" error and
\* has no effect: no background task exists, no request is queued, the
\* history is as loaded).
C8_DisabledStartHasNoEffect ==
    ~Enabled =>
        /\ hist.ret \in {"none", "disabled", "nil, no-op"}
        /\ nStarted = 0
        /\ \A i \in Ids : consumers[i].pc = "none" /\ loops[i].pc = "none"
        /\ backupRequestChan = 0 /\ fsnotifyWatcher = NoSub /\ mu = "free"
        /\ Appended = 0 /\ Metadata = metaFile

C8_Witness == ~Enabled /\ hist.ret = "disabled"

\* C10 (StopWatcher always leaves the watcher stopped; on a watcher that is
\* stopped already - never started, or stopped before - it returns nil and
\* changes nothing, so that stopping twice is stopping once).
C10_StopIdempotent ==
    [][CallStopWatcher =>
          /\ fsnotifyWatcher' = NoSub
          /\ fsnotifyWatcher = NoSub =>
                /\ hist'.ret = "nil, no-op"
                /\ UNCHANGED <<cfgVars, progVars, now>>]_vars

\* C10: StopWatcher was called on a watcher that had been stopped before
C10_Witness ==
    /\ hist.ret = "nil, no-op"
    /\ \E c \in Ids : subs[c] = "closed"

\* C11 (as stated: once StartWatcher has returned nil and a later
\* StopWatcher has returned, with no StartWatcher since, no subscription of
\* the watcher is open, whatever the consumer goroutine had done by then).
C11_SubscriptionReleased ==
    (/\ nStarted = 1
     /\ hist.first \in {"empty", "match", "mismatch"}
     /\ hist.ret \in {"closed", "nil, no-op"})
        => \A s \in Ids : subs[s] # "open"

\* C12 (as stated: no interleaving of starts, stops, file events and
\* attempts ends the process; the consumer never dereferences the handle
\* that StopWatcher has cleared).
C12_NeverFatal == ~Crashed

\* C13 (collision guard: an attempt that finds the folder named after its
\* instant already present ends there - the loop is back in its select -
\* and leaves the history, the metadata file and the destination folders
\* as they were: no copy, no record).
C13_CollisionGuard ==
    [][\A l \in Ids :
          (/\ loops[l].pc = "lock" /\ loops'[l].pc # "lock"
           /\ Format(now) \in DOMAIN folders)
              => /\ loops'[l] = LoopIdle
                 /\ UNCHANGED <<Metadata, metaFile, folders>>]_vars

C13_Witness ==
    /\ rhist.aborted
    /\ Appended = 1 /\ Cardinality(DOMAIN folders) = 1
    /\ \A l \in Ids : loops[l] = LoopIdle

\* C14 (an attempt that got past the collision guard appends exactly one
\* Backup record, whatever the copy did: the records appended are the
\* attempts past the guard, less those still copying or about to append;
\* an attempt that saves or notifies has its record in the history).
C14_RecordDespiteCopyFailure ==
    /\ hist.passed = Appended
          + Cardinality({l \in Ids : loops[l].pc \in {"copy", "append"}})
    /\ \A l \in Ids : loops[l].pc \in {"save", "write", "notify"} =>
          Backup(loops[l].ts) \in Range(Metadata)

\* C14: every copy try failed before the folder existed, and the record is
\* in the history and in the metadata file all the same
C14_Witness ==
    /\ Quiet /\ Appended = 1 /\ hist.passed = 1
    /\ \E i \in DOMAIN Metadata :
          /\ Metadata[i].Timestamp >= StartTime
          /\ Metadata[i].Path \notin DOMAIN folders
    /\ metaFile = Metadata

\* C15 (within an attempt: append, then persist, then notify.  The history
\* only changes in the append step; the metadata file only changes in the
\* save step that follows it and then holds the whole history; observers
\* are only called in the notify step after that, when the history holds
\* the record of the attempt).
C15_AppendSaveNotify ==
    [][/\ Metadata' # Metadata =>
             \E l \in Ids : /\ loops[l].pc = "append" /\ loops'[l].pc = "save"
                            /\ Metadata' = Append(Metadata, Backup(loops[l].ts))
       /\ metaFile' # metaFile =>
             \E l \in Ids : /\ loops[l].pc = "write" /\ loops'[l].pc = "notify"
                            /\ Backup(loops[l].ts) \in Range(metaFile')
                            /\ metaFile' = SubSeq(Metadata, 1, Len(metaFile'))
       /\ CurrentCount' # CurrentCount =>
             \E l \in Ids : /\ loops[l].pc = "notify"
                            /\ loops'[l].pc \notin {"append", "save", "write"}
                            /\ Backup(loops[l].ts) \in Range(Metadata)]_vars

C15_Witness ==
    /\ CurrentCount["o1"] = 1 /\ Appended = 1 /\ metaFile = Metadata
    /\ \A l \in Ids : ~InBackup(l)

\* ----------------------------------------------------------- SpecObservers
\* The observer registry with three observers, one of which unregisters
\* itself from its callback, around one start and its initial backup.
ObserverTime == 2

OLogAdd(o) ==
    /\ hist' = [hist EXCEPT
          !.ret = IF o \in Range(customObservers)
                    THEN "add: already registered" ELSE "add: appended",
          !.arg = o]
    /\ UNCHANGED rhist

OLogRemove(o) ==
    /\ hist' = [hist EXCEPT
          !.ret = IF o \in Range(customObservers)
                    THEN "remove: removed" ELSE "remove: not registered",
          !.arg = o]
    /\ UNCHANGED rhist

\* hist.calls: the callbacks entered by the last notification pass
OLogNotify ==
    /\ hist' = [hist EXCEPT !.calls = Entered(customObservers)]
    /\ UNCHANGED rhist

CallAddObserver(o)    == AddObserver(o) /\ OLogAdd(o)
CallRemoveObserver(o) == RemoveObserver(o) /\ OLogRemove(o)

InitObservers == Init /\ Enabled /\ WaitTime = 1 /\ Metadata = <<>>

NextObservers ==
    \/ \E o \in AllObservers : CallAddObserver(o)
    \/ \E o \in AllObservers : CallRemoveObserver(o)
    \/ StartWatcher(MaxStarts) /\ Keep
    \/ StartOutdated /\ Keep
    \/ StartSend /\ Keep
    \/ \E l \in Ids : LoopRequest(l) /\ Keep
    \/ \E l \in Ids : LoopTimer(l) /\ Keep
    \/ \E l \in Ids : CreateBackupBegin(l) /\ Keep
    \/ \E l \in Ids : CreateBackupCopy(l, "ok") /\ Keep
    \/ \E l \in Ids : CreateBackupAppend(l) /\ Keep
    \/ \E l \in Ids : CreateBackupMarshal(l) /\ Keep
    \/ \E l \in Ids : CreateBackupSave(l, TRUE) /\ Keep
    \/ \E l \in Ids : CreateBackupNotify(l) /\ OLogNotify
    \/ \E l \in Ids : CreateBackupNotifyStuck(l) /\ OLogNotify
    \/ Tick(ObserverTime) /\ Keep

SpecObservers == InitObservers /\ [][NextObservers]_vars

\* C16 (as stated: a callback may call AddObserver or RemoveObserver on its
\* watcher without deadlocking).  No goroutine waits, inside a callback, for
\* the lock that its own notifyObservers holds.
C16_CallbackMayUnregister ==
    \A l \in Ids : ~(loops[l].pc = "relock" /\ mu = "notifyObservers")

NoDuplicates(s) == \A i, j \in DOMAIN s : s[i] = s[j] => i = j

\* C17 (the registry never holds an observer twice; AddObserver appends an
\* unregistered observer and leaves the registry alone otherwise;
\* RemoveObserver leaves the registry alone for an unregistered observer and
\* otherwise takes out exactly that observer, the others keeping their
\* order).
C17_RegistryIsASet ==
    [][/\ NoDuplicates(customObservers')
       /\ \A o \in AllObservers :
            /\ CallAddObserver(o) =>
                 customObservers' = IF o \in Range(customObservers)
                                      THEN customObservers
                                      ELSE customObservers \o <<o>>
            /\ CallRemoveObserver(o) =>
                 /\ customObservers' =
                       SelectSeq(customObservers, LAMBDA x : x # o)
                 /\ Len(customObservers') =
                       Len(customObservers)
                         - (IF o \in Range(customObservers) THEN 1 ELSE 0)]_vars

\* C17: the middle one of three observers was removed
C17_Witness ==
    /\ hist.ret = "remove: removed" /\ hist.arg = "o2"
    /\ customObservers = <<"o1", "o3">>

\* C35 (one notification pass enters the callback of every observer that
\* is registered when the pass begins, exactly once each and in the order
\* of registration, and comes back to the loop).
C35_PassCallsEveryObserver ==
    [][\A l \in Ids :
          (loops[l].pc = "notify" /\ loops'[l].pc # "notify") =>
             /\ hist'.calls = customObservers
             /\ CurrentCount' =
                   [o \in AllObservers |->
                      CurrentCount[o]
                        + (IF o \in Range(customObservers) THEN 1 ELSE 0)]
             /\ loops'[l] = LoopIdle]_vars

\* (every observer is called, even if the pass does not come back)
C35_NobodyLeftOut ==
    [][\A l \in Ids :
          (loops[l].pc = "notify" /\ loops'[l].pc # "notify") =>
             hist'.calls = customObservers]_vars

\* (the same for a registry without an observer that calls RemoveObserver
\* from its callback)
C35_PassUnlessReentrant ==
    [][\A l \in Ids :
          (/\ loops[l].pc = "notify" /\ loops'[l].pc # "notify"
           /\ Range(customObservers) \cap Reentrant = {}) =>
             /\ hist'.calls = customObservers
             /\ CurrentCount' =
                   [o \in AllObservers |->
                      CurrentCount[o]
                        + (IF o \in Range(customObservers) THEN 1 ELSE 0)]
             /\ loops'[l] = LoopIdle]_vars

\* A pass over two observers has called both, in their order
C35_Witness ==
    /\ hist.calls = <<"o2", "o1">> /\ customObservers = <<"o2", "o1">>
    /\ CurrentCount["o1"] = 1 /\ CurrentCount["o2"] = 1
    /\ \A l \in Ids : loops[l].pc \in {"none", "select"}

\* ------------------------------------------------------------- SpecValidate
\* NewWatcher as a function of its arguments and of what the file system
\* holds at the paths it is given.
Names == {"a", "..b"}
Paths == UNION {[1 .. n -> Names] : n \in 1 .. MaxDepth}

\* os.Stat of a path: a directory, nothing (and MkdirAll works), nothing
\* (and MkdirAll fails), something that is not a directory, or a PathError
\* other than "does not exist".
Stats == {"dir", "absent", "unwritable", "file", "invalid"}

IsPrefix(p, q) == Len(p) <= Len(q) /\ SubSeq(q, 1, Len(p)) = p
\* q is a proper descendant of p
Inside(q, p) == IsPrefix(p, q) /\ Len(q) > Len(p)

\* What one file system can answer for two related paths
Consistent(src, dst, ss, ds) ==
    /\ src = dst => ss = ds
    /\ Inside(dst, src) =>
          /\ ss = "file" => ds = "invalid"
          /\ ss \in {"absent", "unwritable", "invalid"} => ds = ss
    /\ Inside(src, dst) =>
          /\ ds = "file" => ss = "invalid"
          /\ ds \in {"absent", "unwritable", "invalid"} => ss = ds

\* validateDir / validateDirOld: the failures for one path
validateDir(st, kind) ==
    IF st = "unwritable" THEN {<<"unwrapped", "mkdir">>}
    ELSE IF st = "invalid" THEN {<<kind, "invalid name">>}
    ELSE IF st = "file" THEN {<<kind, "not a directory">>}
    ELSE {}

\* What the second validateDirOld finds: creating an absent source creates
\* a destination that is the source or one of its ancestors.
DestinationStat ==
    IF stat.source = "absent"
          /\ (Source = Destination \/ Inside(Source, Destination))
      THEN "dir" ELSE stat.destination

\* filepath.Rel of two clean absolute paths
Rel(base, targ) ==
    LET same == {i \in 0 .. Len(base) :
                    i <= Len(targ) /\ SubSeq(base, 1, i) = SubSeq(targ, 1, i)}
        k    == CHOOSE i \in same : \A j \in same : j <= i
    IN  IF base = targ THEN <<".">>
        ELSE [i \in 1 .. Len(base) - k |-> ".."]
                \o SubSeq(targ, k + 1, Len(targ))

\* (HasPrefixDotDot_Never: a faulty variant that takes no path as ascending)
HasPrefixDotDot_Never(rel) == FALSE

\* strings.HasPrefix(relPath, ".."): the first two characters of the path
\* are the first two characters of its first component
HasPrefixDotDot(rel) == rel[1] \in {"..", "..b"}

\* validateSourceAndDestination
validateSourceAndDestination ==
    validateDir(stat.source, "source")
      \cup validateDir(DestinationStat, "destination")
      \cup (IF Source = Destination
              THEN {<<"source", "same">>, <<"destination", "same">>} ELSE {})
      \cup (IF /\ ~HasPrefixDotDot(Rel(Source, Destination))
               /\ Rel(Source, Destination) # <<".">>
              THEN {<<"destination", "inside source">>} ELSE {})

\* os.ReadFile and json.Unmarshal of destination/metadata.json: no such
\* file, a file that parses, a file that does not parse, or a read error
\* other than "does not exist"
MetadataStats == {"absent", "valid", "corrupt", "unreadable"}

\* What one file system can answer for the destination and the file in it
MetadataConsistent(ds, ms) ==
    /\ ds \in {"absent", "unwritable"} => ms = "absent"
    /\ ds \in {"file", "invalid"} => ms = "unreadable"

\* loadMetadata lines 80-91: the error it returns, wrapped by line 68
loadMetadata ==
    IF DestinationStat \in {"file", "invalid"} \/ stat.metadata = "unreadable"
      THEN {<<"metadata", "reading">>}
    ELSE IF stat.metadata = "corrupt" THEN {<<"metadata", "parsing">>}
    ELSE {}

\* (LoadedMetadata_Reversed: a faulty variant that loads the records in
\* the opposite order)
LoadedMetadata_Reversed ==
    IF loadMetadata = {} /\ stat.metadata = "valid"
      THEN [i \in 1 .. Len(metaFile) |-> metaFile[Len(metaFile) + 1 - i]]
      ELSE Metadata

\* loadMetadata lines 94-95: w.Metadata is assigned only after a parse
\* that worked; until then it is the empty slice of line 59
LoadedMetadata ==
    IF loadMetadata = {} /\ stat.metadata = "valid" THEN metaFile ELSE Metadata

\* NewWatcher lines 47-71: every check runs, every failure is joined
NewWatcherErrs ==
    (IF Name = "" THEN {<<"name", "empty">>} ELSE {})
      \cup (IF validateWaitTime(WaitTime) THEN {}
            ELSE {<<"wait time", "not positive">>})
      \cup (IF validateFolderFormat(WaitTime, FolderFormat) THEN {}
            ELSE {<<"folder format", "precision">>})
      \cup validateDir(stat.folderFormat, "folder format")
      \cup validateSourceAndDestination
      \cup loadMetadata

\* (Created_Nothing: a faulty variant without the os.MkdirAll of line 111)
Created_Nothing(st) == st

Created(st) == IF st = "absent" THEN "dir" ELSE st

NewWatcher ==
    /\ newWatcher = "called"
    /\ newWatcher' = "returned"
    /\ errs' = NewWatcherErrs
    /\ stat' = [folderFormat |-> Created(stat.folderFormat),
                source       |-> Created(stat.source),
                destination  |-> Created(DestinationStat),
                metadata     |-> stat.metadata]
    /\ Metadata' = LoadedMetadata
    /\ UNCHANGED <<sourceTree, destinationTree, match, copyLoop,
                   Name, Source, Destination, Enabled, WaitTime, FolderFormat,
                   mu, fsnotifyWatcher, customObservers, backupRequestChan,
                   subs, consumers, loops, api, nStarted, folders, metaFile,
                   CurrentCount, now>>

\* The fields of a new Watcher value (lines 52-62) and the world around it
Fresh ==
    /\ Enabled = TRUE
    /\ Metadata = <<>>
    /\ folders = <<>>
    /\ mu = "free"
    /\ fsnotifyWatcher = NoSub
    /\ customObservers = <<>>
    /\ backupRequestChan = 0
    /\ subs = [s \in Ids |-> "none"]
    /\ consumers = [c \in Ids |-> [pc |-> "none", sub |-> NoSub]]
    /\ loops = [l \in Ids |-> [pc |-> "none", timer |-> NoTimer, ts |-> 0,
                             data |-> 0]]
    /\ api = "idle"
    /\ nStarted = 0
    /\ CurrentCount = [o \in AllObservers |-> 0]
    /\ now = StartTime
    /\ hist = [ret |-> "none", first |-> "none", sent |-> FALSE,
               notified |-> 0, trig |-> 0, last |-> {},
               spaced |-> TRUE, clean |-> TRUE, watching |-> {},
               passed |-> 0, arg |-> "none",
               consumed |-> [l \in Ids |-> {}], owed |-> FALSE,
               over |-> {}, saved |-> TRUE, calls |-> <<>>]
    /\ rhist = [running |-> FALSE, burst |-> FALSE, age |-> 0,
                busy |-> NotBusy, aborted |-> FALSE]

InitCall ==
    /\ NoCompare
    /\ NoCopy
    /\ newWatcher = "called"
    /\ errs = {}
    /\ Fresh

\* A watcher that NewWatcher returned with a nil error
Constructed ==
    /\ newWatcher = "returned"
    /\ errs = {}
    /\ Name = "n"
    /\ Source = <<"a">>
    /\ Destination = <<"..b">>
    /\ stat = [folderFormat |-> "dir", source |-> "dir",
               destination |-> "dir", metadata |-> "absent"]
    /\ WaitTime = 1
    /\ FolderFormat = Dated(1)
    /\ metaFile = <<>>
    /\ Fresh

InitValidate ==
    /\ InitCall
    /\ Name \in {"", "n"}
    /\ Source \in Paths
    /\ Destination \in Paths
    /\ stat \in [folderFormat : Stats, source : Stats, destination : Stats,
                 metadata : {"absent", "corrupt", "unreadable"}]
    /\ Consistent(Source, Destination, stat.source, stat.destination)
    /\ MetadataConsistent(stat.destination, stat.metadata)
    /\ WaitTime \in -1 .. MaxWait
    /\ FolderFormat \in {Dated(u) : u \in 1 .. MaxWait}
    /\ metaFile = <<>>

\* history recorded by SpecValidate: what the file system held at the call
VLogNewWatcher == hist' = [hist EXCEPT !.arg = stat] /\ UNCHANGED rhist

NextValidate == NewWatcher /\ VLogNewWatcher

SpecValidate == InitValidate /\ [][NextValidate]_vars

\* The checks of the configuration, as properties of the arguments
Collides == Format(0) = Format(WaitTime)

\* C18 (as stated: validation is aggregated; for every combination of
\* violated checks the returned error holds a failure for each violated
\* check).
C18_EveryViolationReported ==
    newWatcher = "returned" =>
        /\ Name = "" => <<"name", "empty">> \in errs
        /\ WaitTime <= 0 => <<"wait time", "not positive">> \in errs
        /\ Collides => <<"folder format", "precision">> \in errs
        /\ stat.source = "file" => <<"source", "not a directory">> \in errs
        /\ stat.destination = "file" =>
              <<"destination", "not a directory">> \in errs
        /\ Source = Destination =>
              {<<"source", "same">>, <<"destination", "same">>} \subseteq errs
        /\ Inside(Destination, Source) =>
              <<"destination", "inside source">> \in errs

\* C18: several checks violated at once and each of them reported
C18_Witness ==
    /\ newWatcher = "returned"
    /\ Name = "" /\ WaitTime <= 0 /\ Collides
    /\ stat.source = "file" /\ Inside(Destination, Source)
    /\ {<<"name", "empty">>, <<"wait time", "not positive">>,
        <<"folder format", "precision">>, <<"source", "not a directory">>,
        <<"destination", "inside source">>} \subseteq errs

\* C19 (an empty name is reported as a name failure and a wait time that is
\* not positive as a wait-time failure, whatever the other arguments are).
C19_NameAndWaitTimeAlwaysChecked ==
    newWatcher = "returned" =>
        /\ Name = "" <=> <<"name", "empty">> \in errs
        /\ WaitTime <= 0 <=> <<"wait time", "not positive">> \in errs

\* C19: both failures reported next to failures of other arguments
C19_Witness ==
    /\ newWatcher = "returned"
    /\ Name = "" /\ WaitTime = 0
    /\ stat.source = "file" /\ stat.folderFormat = "invalid"
    /\ Source = Destination
    /\ {<<"name", "empty">>, <<"wait time", "not positive">>} \subseteq errs
    /\ Cardinality(errs) > 4

\* Every argument but the folder format is valid
OthersValid ==
    /\ Name # "" /\ WaitTime > 0
    /\ stat.source = "dir" /\ stat.destination = "dir"
    /\ stat.metadata \in {"absent", "valid"}
    /\ Source # Destination /\ ~Inside(Destination, Source)

\* C20 (as stated): with the other arguments valid, NewWatcher rejects if
\* and only if instant 0 and instant 0 + wait time get the same folder name.
C20_RejectedIffCollision ==
    (newWatcher = "returned" /\ OthersValid) => (errs # {} <=> Collides)

\* C20 (amended): with the other arguments valid, NewWatcher rejects if and
\* only if instant 0 and instant 0 + wait time get the same folder name or
\* the format string is not acceptable as a directory name.
C20_RejectedIffCollisionOrBadName ==
    (newWatcher = "returned" /\ OthersValid) =>
        (errs # {} <=>
            Collides \/ stat.folderFormat \in {"unwritable", "file", "invalid"})

\* C20: a format precise enough for the wait time, rejected as a name
C20_Witness ==
    /\ newWatcher = "returned" /\ OthersValid
    /\ ~Collides /\ stat.folderFormat = "file"
    /\ errs = {<<"folder format", "not a directory">>}

\* C20: a colliding format that is fine as a directory name, rejected
C20_WitnessCollision ==
    /\ newWatcher = "returned" /\ OthersValid
    /\ Collides /\ stat.folderFormat = "dir"
    /\ errs = {<<"folder format", "precision">>}


\* The failures of the relational check between source and destination
Relational ==
    {<<"source", "same">>, <<"destination", "same">>,
     <<"destination", "inside source">>}

\* C22 (as stated: a destination that is the source, or a proper descendant
\* of the source whatever its components are called, makes NewWatcher report
\* a validation failure).
C22_SameOrInsideRejected ==
    (/\ newWatcher = "returned"
     /\ Source = Destination \/ Inside(Destination, Source))
        => errs # {}

\* C22: a descendant whose components do not begin with two dots is rejected
C22_Witness ==
    /\ newWatcher = "returned"
    /\ Source = <<"a">> /\ Destination = <<"a", "a">>
    /\ errs = {<<"destination", "inside source">>}

C23_WitnessAncestor ==
    /\ newWatcher = "returned"
    /\ Source = <<"..b", "a">> /\ Destination = <<"..b">>
    /\ errs \cap Relational = {}

\* The failures of the directory validation of one role
DirFailures(role, e) ==
    {f \in e : f[1] = role /\ f[2] \in {"invalid name", "not a directory"}}

\* C27 (directory validation of source and of destination: an absent path
\* is created as a directory and accepted; a directory is accepted and left
\* as it is; something that is not a directory is rejected with a failure
\* that names the role).
C27_DirectoryValidation ==
    [][NewWatcher => \A role \in {"source", "destination"} :
          /\ stat[role] \in {"absent", "dir"} =>
                /\ stat'[role] = "dir"
                /\ DirFailures(role, errs') = {}
          /\ stat[role] = "file" =>
                /\ stat'[role] = "file"
                /\ DirFailures(role, errs') = {<<role, "not a directory">>}]_vars

\* C27: an absent source was created, a destination that is a file rejected
C27_Witness ==
    /\ newWatcher = "returned"
    /\ hist.arg.source = "absent" /\ stat.source = "dir"
    /\ hist.arg.destination = "file" /\ stat.destination = "file"
    /\ DirFailures("source", errs) = {}
    /\ DirFailures("destination", errs) = {<<"destination", "not a directory">>}


\* ----------------------------------------------------------------- SpecLoad
\* NewWatcher over what destination/metadata.json holds.
StoredHistories == {<<>>, <<Backup(0)>>, <<Backup(1), Backup(0)>>}

InitLoad ==
    /\ InitCall
    /\ Name \in {"", "n"}
    /\ Source = <<"a">>
    /\ Destination = <<"..b">>
    /\ stat \in [folderFormat : {"dir"}, source : Stats, destination : Stats,
                 metadata : MetadataStats]
    /\ MetadataConsistent(stat.destination, stat.metadata)
    /\ WaitTime \in -1 .. MaxWait
    /\ FolderFormat = Dated(1)
    /\ metaFile \in StoredHistories
    /\ stat.metadata \in {"absent", "unreadable"} => metaFile = <<>>
    /\ stat.metadata = "corrupt" => metaFile # <<>>

SpecLoad == InitLoad /\ [][NextValidate]_vars

\* C25 (loading at construction: without a metadata file the history is
\* empty and no error is reported for it; with a malformed file NewWatcher
\* reports an error and the history stays empty; with a well-formed file the
\* history is the stored sequence in stored order).
C25_LoadMetadata ==
    newWatcher = "returned" =>
        /\ stat.metadata = "absent" =>
              Metadata = <<>> /\ {f \in errs : f[1] = "metadata"} = {}
        /\ stat.metadata = "corrupt" =>
              Metadata = <<>> /\ <<"metadata", "parsing">> \in errs
        /\ stat.metadata = "valid" =>
              Metadata = metaFile /\ {f \in errs : f[1] = "metadata"} = {}

\* C25: two stored records loaded in stored order
C25_Witness ==
    /\ newWatcher = "returned" /\ stat.metadata = "valid"
    /\ Metadata = <<Backup(1), Backup(0)>>
    /\ errs = {}

\* C25: a malformed file next to arguments that are all valid
C25_WitnessCorrupt ==
    /\ newWatcher = "returned" /\ stat.metadata = "corrupt"
    /\ metaFile # <<>> /\ Metadata = <<>>
    /\ errs = {<<"metadata", "parsing">>}


\* --------------------------------------------------------------- SpecFormat
\* NewWatcher over wait times and layouts, layouts that start over included.
InitFormat ==
    /\ InitCall
    /\ Name \in {"", "n"}
    /\ Source = <<"a">>
    /\ Destination = <<"..b">>
    /\ stat \in [folderFormat : Stats, source : {"dir"}, destination : {"dir"},
                 metadata : {"absent"}]
    /\ WaitTime \in -1 .. MaxWaitTime
    /\ FolderFormat \in [unit : 1 .. MaxWait, wrap : {0} \cup (2 .. MaxWrap)]
    /\ metaFile = <<>>

SpecFormat == InitFormat /\ [][NextValidate]_vars

\* C21 (as stated: with a configuration that passed validation, any two
\* instants one wait time apart, not only instant 0 and instant 0 + wait
\* time, get different folder names).
C21_NoCollisionAtAnyInstant ==
    (newWatcher = "returned" /\ errs = {}) =>
        \A t \in 0 .. MaxInstant : Format(t) # Format(t + WaitTime)

\* C21: with a layout that has every field up to the year the names of any
\* two instants one wait time apart differ
C21_Witness ==
    /\ newWatcher = "returned" /\ errs = {}
    /\ FolderFormat = Dated(2) /\ WaitTime = 3
    /\ \A t \in 0 .. MaxInstant : Format(t) # Format(t + WaitTime)


\* C26 (the history is append-only: over every step the history before the
\* step is a prefix of the history after it; no record is changed, moved or
\* removed).
C26_AppendOnly ==
    [][/\ Len(Metadata) <= Len(Metadata')
       /\ \A i \in DOMAIN Metadata : Metadata'[i] = Metadata[i]]_vars

\* C26: a record loaded at construction is still first after a backup
C26_Witness ==
    /\ Quiet /\ Len(Metadata) = 2 /\ Appended = 1
    /\ Metadata[1] = Backup(0)
    /\ Metadata[2].Timestamp >= StartTime


\* ------------------------------------------------------------- SpecDebounce
\* One start on an empty history, then file events; the copy works, the
\* metadata is written, nobody calls StopWatcher.
\* A request that is on its way to the loop
Undelivered ==
    \/ backupRequestChan > 0
    \/ \E c \in Ids : consumers[c].pc = "send"

DLogEvent ==
    /\ hist' = [hist EXCEPT !.notified = @ + 1, !.owed = TRUE]
    /\ UNCHANGED rhist

DLogRequest(l) ==
    /\ hist' = [hist EXCEPT !.consumed[l] = @ \cup {now}]
    /\ UNCHANGED rhist

DLogTimer ==
    /\ hist' = [hist EXCEPT !.owed = Undelivered]
    /\ UNCHANGED rhist

DLogBegin(l) ==
    /\ hist' = [hist EXCEPT !.consumed[l] = {}]
    /\ UNCHANGED rhist

\* The clock stops at DebounceTime.  Requests are issued, and wait to be
\* taken, only as long as a timer armed for them is due by then.
InTime(t) == t + WaitTime <= DebounceTime

\* The clock of SpecDebounce
DebounceTick ==
    /\ (Undelivered \/ api # "idle") => InTime(now + 1)
    /\ Tick(DebounceTime) /\ Keep

InitDebounce == Init /\ Enabled /\ Metadata = <<>>

NextDebounce ==
    \/ StartWatcher(MaxStarts) /\ Keep
    \/ StartOutdated /\ Keep
    \/ StartSend /\ Keep
    \/ \E c \in Ids : ConsumerInit(c) /\ Keep
    \/ \E c \in Ids : ConsumerSelect(c) /\ Keep
    \/ \E c \in Ids : /\ hist.notified < MaxNotify /\ InTime(now)
                      /\ ConsumerEvent(c) /\ DLogEvent
    \/ \E c \in Ids : ConsumerSend(c) /\ Keep
    \/ \E l \in Ids : LoopRequest(l) /\ DLogRequest(l)
    \/ \E l \in Ids : LoopTimer(l) /\ DLogTimer
    \/ \E l \in Ids : CreateBackupBegin(l) /\ DLogBegin(l)
    \/ \E l \in Ids : CreateBackupCopy(l, "ok") /\ Keep
    \/ \E l \in Ids : CreateBackupAppend(l) /\ Keep
    \/ \E l \in Ids : CreateBackupMarshal(l) /\ Keep
    \/ \E l \in Ids : CreateBackupSave(l, TRUE) /\ Keep
    \/ \E l \in Ids : CreateBackupNotify(l) /\ Keep
    \/ DebounceTick

SpecDebounce == InitDebounce /\ [][NextDebounce]_vars

\* C28 (debounce timing: every request the loop takes arms a timer of a
\* full wait time that replaces the one before; an attempt starts only when
\* the latest timer is due, not sooner than a wait time after the last
\* request taken; once it is due the loop has no timer, and after the
\* attempt it is idle).
C28_DebounceTiming ==
    [][/\ backupRequestChan' < backupRequestChan =>
             \E l \in Ids :
                /\ loops[l].pc = "select"
                /\ loops' = [loops EXCEPT ![l].timer = now + WaitTime]
       /\ \A l \in Ids :
            /\ loops'[l].timer # loops[l].timer =>
                  \/ /\ backupRequestChan' < backupRequestChan
                     /\ loops'[l].timer = now + WaitTime
                  \/ /\ loops'[l].pc = "lock"
                     /\ loops'[l].timer = NoTimer
            /\ (loops[l].pc = "select" /\ loops'[l].pc = "lock") =>
                  /\ hist.consumed[l] # {}
                  /\ \A t \in hist.consumed[l] : now >= t + WaitTime
                  /\ loops[l].timer \in {t + WaitTime : t \in hist.consumed[l]}
                  /\ now >= loops[l].timer
                  /\ loops'[l].timer = NoTimer
            /\ (loops[l].pc \notin {"none", "select"}
                  /\ loops'[l].pc = "select") => loops'[l] = LoopIdle]_vars

\* C28: an attempt starts after a timer that was armed twice
C28_Witness ==
    \E l \in Ids :
       /\ loops[l].pc = "lock"
       /\ Cardinality(hist.consumed[l]) = 2
       /\ \A t \in hist.consumed[l] : now >= t + WaitTime


\* SpecDebounce with the scheduling of the Go runtime: a goroutine that can
\* take a step takes it in the end, and time passes.  Nothing makes the
\* caller start the watcher or the file system deliver an event.
DebounceFairness ==
    /\ WF_vars(StartOutdated /\ Keep)
    /\ WF_vars(StartSend /\ Keep)
    /\ WF_vars(DebounceTick)
    /\ \A c \in Ids :
          /\ WF_vars(ConsumerInit(c) /\ Keep)
          /\ WF_vars(ConsumerSelect(c) /\ Keep)
          /\ WF_vars(ConsumerSend(c) /\ Keep)
    /\ \A l \in Ids :
          /\ WF_vars(LoopRequest(l) /\ DLogRequest(l))
          /\ WF_vars(LoopTimer(l) /\ DLogTimer)
          /\ WF_vars(CreateBackupBegin(l) /\ DLogBegin(l))
          /\ WF_vars(CreateBackupCopy(l, "ok") /\ Keep)
          /\ WF_vars(CreateBackupAppend(l) /\ Keep)
          /\ WF_vars(CreateBackupMarshal(l) /\ Keep)
          /\ WF_vars(CreateBackupSave(l, TRUE) /\ Keep)
          /\ WF_vars(CreateBackupNotify(l) /\ Keep)

SpecDebounceFair == SpecDebounce /\ DebounceFairness

\* C29 (as stated: the channel never holds more than one request, and every
\* file event the consumer receives is in the end taken by the loop and
\* followed by an attempt that starts after it was taken).
C29_NoNotificationLost ==
    /\ [](backupRequestChan <= ChanCap)
    /\ hist.owed ~> ~hist.owed

\* C29: an event was received, its request taken and an attempt started
C29_Witness ==
    /\ hist.notified > 0 /\ ~hist.owed /\ ~Undelivered
    /\ \E l \in Ids : loops[l].pc = "lock"


\* -------------------------------------------------------------- SpecCompare
\* doFoldersMatch as a function of two directory trees.
\* A file: its bytes, its modification time, and whether os.Stat and
\* os.ReadFile work on it.
Files ==
    [type : {"file"}, content : {"x", "y"}, mtime : {1, 2}, readable : {TRUE}]
      \cup {[type |-> "file", content |-> "x", mtime |-> 1, readable |-> FALSE]}

\* A directory: whether os.ReadDir works on it, and its entries by name
DirsOf(names, entries) ==
    {[type |-> "dir", list |-> "error", kids |-> <<>>]}
      \cup {[type |-> "dir", list |-> "ok", kids |-> k] :
              k \in UNION {[n -> entries] : n \in SUBSET names}}

SubDirs == DirsOf({"f"}, Files)
Trees   == DirsOf({"a", "b"}, Files \cup SubDirs)

\* os.ReadDir returns the entries sorted by file name
NameOrder == <<"a", "b", "f">>
ReadDir(t) == SelectSeq(NameOrder, LAMBDA n : n \in DOMAIN t.kids)

\* (doFilesMatch_ContentOnly: a faulty variant without lines 415-417)
doFilesMatch_ContentOnly(x, y) ==
    IF ~x.readable \/ ~y.readable THEN "error"
    ELSE IF x.content # y.content THEN "false"
    ELSE "true"

\* doFilesMatch lines 392-420
doFilesMatch(x, y) ==
    IF ~x.readable \/ ~y.readable THEN "error"
    ELSE IF x.content # y.content THEN "false"
    ELSE IF x.mtime # y.mtime THEN "false"
    ELSE "true"

RECURSIVE doFoldersMatch(_, _)
RECURSIVE CompareEntries(_, _, _, _, _)

\* doFoldersMatch lines 356-388: the loop over the entries, from index i
CompareEntries(s, d, se, de, i) ==
    IF i > Len(se) THEN "true"
    ELSE IF se[i] # de[i] THEN "false"
    ELSE LET x == s.kids[se[i]]
             y == d.kids[de[i]]
             r == IF x.type = "dir" /\ y.type = "dir"
                    THEN doFoldersMatch(x, y)
                  ELSE IF x.type # "dir" /\ y.type # "dir"
                    THEN doFilesMatch(x, y)
                  ELSE "false"
         IN  IF r # "true" THEN r ELSE CompareEntries(s, d, se, de, i + 1)

\* doFoldersMatch lines 342-390
doFoldersMatch(s, d) ==
    IF s.list = "error" \/ d.list = "error" THEN "error"
    ELSE IF Len(ReadDir(s)) # Len(ReadDir(d)) THEN "false"
    ELSE CompareEntries(s, d, ReadDir(s), ReadDir(d), 1)

DoFoldersMatch ==
    /\ match = "called"
    /\ match' = doFoldersMatch(sourceTree, destinationTree)
    /\ UNCHANGED <<sourceTree, destinationTree, copyLoop, newWatcher, errs,
                   stat, Name, Source, Destination, Enabled, WaitTime,
                   FolderFormat, progVars, now, histVars>>

InitCompare ==
    /\ Constructed
    /\ NoCopy
    /\ sourceTree \in Trees
    /\ destinationTree \in Trees
    /\ match = "called"

NextCompare == DoFoldersMatch

SpecCompare == InitCompare /\ [][NextCompare]_vars

\* Every directory of the tree lists and every file in it reads
RECURSIVE Readable(_)
Readable(t) ==
    IF t.type = "file" THEN t.readable
    ELSE t.list = "ok" /\ \A n \in DOMAIN t.kids : Readable(t.kids[n])

\* C24 (doFoldersMatch gives true exactly for two trees with the same
\* entries at every level: same names, same types, sub-directories that
\* match, files with the same bytes and the same modification time; a
\* difference in the bytes alone or in the modification time alone gives
\* false; a directory that cannot be listed gives an error, not a result).
C24_TreesMatchIffEqual ==
    match \notin {"none", "called"} =>
        /\ match = "true" <=>
              /\ sourceTree = destinationTree
              /\ Readable(sourceTree)
        /\ (Readable(sourceTree) /\ Readable(destinationTree)) =>
              match = (IF sourceTree = destinationTree THEN "true" ELSE "false")
        /\ (sourceTree.list = "error" \/ destinationTree.list = "error") =>
              match = "error"

\* C24: two trees that differ in one modification time, two levels down
C24_Witness ==
    /\ match = "false"
    /\ Readable(sourceTree) /\ Readable(destinationTree)
    /\ DOMAIN sourceTree.kids = {"a", "b"}
    /\ sourceTree.kids["a"].type = "dir"
    /\ DOMAIN sourceTree.kids["a"].kids = {"f"}
    /\ destinationTree =
          [sourceTree EXCEPT !.kids["a"].kids["f"].mtime = 3 - @]

\* C24: equal trees with a sub-directory and a file
C24_WitnessEqual ==
    /\ match = "true"
    /\ DOMAIN sourceTree.kids = {"a", "b"}
    /\ sourceTree.kids["a"].type = "dir"
    /\ DOMAIN sourceTree.kids["a"].kids = {"f"}
    /\ sourceTree.kids["b"].type = "file"


\* ----------------------------------------------------------------- SpecCopy
\* The copy loop of createBackup (lines 252-259), try by try.
CopyTries == 100     \* for range 100

\* (CopyTry_NoBreak: a faulty variant without the break of line 258)
CopyTry_NoBreak(ok) ==
    /\ copyLoop.pc = "try"
    /\ copyLoop' =
          [pc     |-> IF copyLoop.tries + 1 = CopyTries THEN "append" ELSE "try",
           tries  |-> copyLoop.tries + 1,
           failed |-> IF ok THEN copyLoop.failed ELSE copyLoop.failed + 1]
    /\ UNCHANGED <<sourceTree, destinationTree, match, newWatcher, errs, stat,
                   Name, Source, Destination, Enabled, WaitTime, FolderFormat,
                   progVars, now, histVars>>

\* One pass of the loop body: cp.Copy, then break, or sleep and continue
\* until the range is used up
CopyTry(ok) ==
    /\ copyLoop.pc = "try"
    /\ copyLoop' =
          [pc     |-> IF ok \/ copyLoop.tries + 1 = CopyTries
                        THEN "append" ELSE "try",
           tries  |-> copyLoop.tries + 1,
           failed |-> IF ok THEN copyLoop.failed ELSE copyLoop.failed + 1]
    /\ UNCHANGED <<sourceTree, destinationTree, match, newWatcher, errs, stat,
                   Name, Source, Destination, Enabled, WaitTime, FolderFormat,
                   progVars, now, histVars>>

InitCopy ==
    /\ Constructed
    /\ NoCompare
    /\ copyLoop = [pc |-> "try", tries |-> 0, failed |-> 0]

NextCopy == \E ok \in BOOLEAN : CopyTry(ok)

\* cp.Copy returns and the goroutine of the loop is scheduled
SpecCopy == InitCopy /\ [][NextCopy]_vars /\ WF_vars(NextCopy)

\* C30 (in one attempt cp.Copy is called at least once and at most 100
\* times; a further try is made only after a failed one and none after one
\* that worked; the attempt always gets to the append, after at most 100
\* failed tries).
C30_CopyRetries ==
    /\ [](/\ copyLoop.tries <= CopyTries
          /\ copyLoop.pc = "try" => copyLoop.failed = copyLoop.tries
          /\ copyLoop.pc = "append" =>
                /\ copyLoop.tries >= 1
                /\ copyLoop.failed \in {copyLoop.tries - 1, copyLoop.tries}
                /\ copyLoop.failed = copyLoop.tries =>
                      copyLoop.tries = CopyTries)
    /\ [][copyLoop' # copyLoop =>
             /\ copyLoop.pc = "try"
             /\ copyLoop.failed = copyLoop.tries
             /\ copyLoop'.tries = copyLoop.tries + 1]_vars
    /\ <>(copyLoop.pc = "append")

\* C30: the third try worked after two failed ones
C30_Witness ==
    copyLoop = [pc |-> "append", tries |-> 3, failed |-> 2]

\* C30: all 100 tries failed and the attempt goes on to the append
C30_WitnessGiveUp ==
    copyLoop = [pc |-> "append", tries |-> CopyTries, failed |-> CopyTries]

\* ---------------------------------------------------------------- SpecStop
\* One enabled watcher without history that is started, notified and
\* stopped, with every goroutine scheduled fairly.  hist.over holds the
\* loops that were inside createBackup, past the collision guard, when
\* StopWatcher closed the subscription, until their attempt is over.
SLogStopWatcher ==
    /\ hist' = [hist EXCEPT
          !.ret  = IF fsnotifyWatcher = NoSub THEN "nil, no-op" ELSE "closed",
          !.over = IF fsnotifyWatcher = NoSub THEN @ ELSE InFlight]
    /\ UNCHANGED rhist

SLogEvent ==
    /\ hist' = [hist EXCEPT !.notified = @ + 1]
    /\ UNCHANGED rhist

SLogNotify(l) ==
    /\ hist' = [hist EXCEPT !.over = @ \ {l}]
    /\ UNCHANGED rhist

\* The clock of SpecStop
StopTick == DebounceTick /\ Alive

InitStop == Init /\ Enabled /\ Metadata = <<>>

NextStop ==
    \/ Alive /\ StartWatcher(MaxStarts) /\ Keep
    \/ Alive /\ StartOutdated /\ Keep
    \/ Alive /\ StartSend /\ Keep
    \/ Alive /\ StopWatcher /\ SLogStopWatcher
    \/ \E c \in Ids : Alive /\ ConsumerInit(c) /\ Keep
    \/ \E c \in Ids : Alive /\ ConsumerSelect(c) /\ Keep
    \/ \E c \in Ids : /\ Alive /\ hist.notified < MaxNotify /\ InTime(now)
                      /\ ConsumerEvent(c) /\ SLogEvent
    \/ \E c \in Ids : Alive /\ ConsumerSend(c) /\ Keep
    \/ \E c \in Ids : Alive /\ ConsumerClosed(c) /\ Keep
    \/ \E l \in Ids : Alive /\ LoopRequest(l) /\ Keep
    \/ \E l \in Ids : Alive /\ LoopTimer(l) /\ Keep
    \/ \E l \in Ids : Alive /\ CreateBackupBegin(l) /\ Keep
    \/ \E l \in Ids : Alive /\ CreateBackupCopy(l, "ok") /\ Keep
    \/ \E l \in Ids : Alive /\ CreateBackupAppend(l) /\ Keep
    \/ \E l \in Ids : Alive /\ CreateBackupMarshal(l) /\ Keep
    \/ \E l \in Ids : Alive /\ CreateBackupSave(l, TRUE) /\ Keep
    \/ \E l \in Ids : Alive /\ CreateBackupNotify(l) /\ SLogNotify(l)
    \/ StopTick

\* Every goroutine that can take a step takes one, and time passes, as long
\* as the process lives; the calls of the API are up to the caller.
StopFairness ==
    /\ WF_vars(Alive /\ StartOutdated /\ Keep)
    /\ WF_vars(Alive /\ StartSend /\ Keep)
    /\ WF_vars(StopTick)
    /\ \A c \in Ids :
          /\ WF_vars(Alive /\ ConsumerInit(c) /\ Keep)
          /\ WF_vars(Alive /\ ConsumerSelect(c) /\ Keep)
          /\ WF_vars(Alive /\ ConsumerSend(c) /\ Keep)
          /\ WF_vars(Alive /\ ConsumerClosed(c) /\ Keep)
    /\ \A l \in Ids :
          /\ WF_vars(Alive /\ LoopRequest(l) /\ Keep)
          /\ WF_vars(Alive /\ LoopTimer(l) /\ Keep)
          /\ WF_vars(Alive /\ CreateBackupBegin(l) /\ Keep)
          /\ WF_vars(Alive /\ CreateBackupCopy(l, "ok") /\ Keep)
          /\ WF_vars(Alive /\ CreateBackupAppend(l) /\ Keep)
          /\ WF_vars(Alive /\ CreateBackupMarshal(l) /\ Keep)
          /\ WF_vars(Alive /\ CreateBackupSave(l, TRUE) /\ Keep)
          /\ WF_vars(Alive /\ CreateBackupNotify(l) /\ SLogNotify(l))

SpecStop == InitStop /\ [][NextStop]_vars /\ StopFairness

\* C31 (after a StopWatcher that closed the subscription of a running
\* watcher, every backupLoop goroutine of the watcher eventually leaves its
\* loop for good, unless the process has died).
C31_LoopStops ==
    (hist.ret = "closed") ~>
        (Crashed \/ \A l \in Ids : loops[l].pc \in {"none", "done"})

\* C32 (an attempt that was past the collision guard when StopWatcher
\* closed the subscription still completes: its record is appended, the
\* metadata are saved and the observers are notified).
C32_AttemptCompletes ==
    \A l \in Ids : (l \in hist.over) ~> (l \notin hist.over)

\* (the same, as long as the process lives)
C32_CompletesUnlessCrashed ==
    \A l \in Ids : (l \in hist.over) ~> (l \notin hist.over \/ Crashed)

\* An attempt was in flight when StopWatcher closed the subscription; it
\* has appended and saved its record since, and the process lives.
C32_Witness ==
    /\ Alive /\ hist.ret = "closed"
    /\ \E l \in hist.over :
          /\ loops[l].pc = "notify"
          /\ Metadata # <<>>
          /\ Metadata[Len(Metadata)] = Backup(loops[l].ts)
          /\ metaFile = Metadata

\* C33 (frame: a step of StartWatcher, StopWatcher, AddObserver,
\* RemoveObserver, of the consumer that receives and hands on a change
\* notification, or of the clock leaves the in-memory history and the
\* metadata file as they are; either changes only in a step of a loop that
\* is inside a snapshot attempt, at its append or at its save).
C33_OnlyAttemptsChangeHistory ==
    [][ /\ (\/ api' # api
            \/ mu' # mu
            \/ fsnotifyWatcher' # fsnotifyWatcher
            \/ subs' # subs
            \/ customObservers' # customObservers
            \/ consumers' # consumers
            \/ backupRequestChan' # backupRequestChan
            \/ now' # now) => UNCHANGED <<Metadata, metaFile>>
        /\ (Metadata' # Metadata \/ metaFile' # metaFile) =>
              \E l \in Ids :
                 /\ loops[l].pc \in {"append", "write"}
                 /\ loops'[l].pc # loops[l].pc
                 /\ \A k \in Ids \ {l} : loops'[k] = loops[k] ]_vars

\* The watcher was started, took a change notification, got an observer
\* and was stopped; no attempt has appended or saved anything.
C33_Witness ==
    /\ hist.ret = "closed" /\ hist.notified > 0
    /\ customObservers # <<>>
    /\ Metadata = <<Backup(0)>> /\ metaFile = Metadata
    /\ \A l \in Ids : ~InBackup(l)

\* ---------------------------------------------------------------- SpecSave
\* One enabled watcher without history that is started, stopped and started
\* again while the source stays as it is (the requests are those of
\* StartWatcher), with saveMetadata taken statement by statement and either
\* outcome of os.WriteFile.  hist.saved tells whether the last write worked,
\* hist.watching which observers are registered since before the first
\* start, rhist.aborted whether the collision guard ended an attempt.
VLogSave(written) ==
    /\ hist' = [hist EXCEPT !.saved = written]
    /\ UNCHANGED rhist

InitSave == InitRestart

NextSave ==
    \/ Alive /\ StartWatcher(RestartStarts) /\ LogStartWatcher
    \/ Alive /\ StartOutdated /\ Keep
    \/ Alive /\ StartSend /\ Keep
    \/ Alive /\ StopWatcher /\ Keep
    \/ \E o \in Observers : Alive /\ AddObserver(o) /\ Keep
    \/ \E o \in Observers : Alive /\ RemoveObserver(o) /\ LogRemoveObserver(o)
    \/ \E c \in Ids : Alive /\ ConsumerInit(c) /\ Keep
    \/ \E c \in Ids : Alive /\ ConsumerSelect(c) /\ Keep
    \/ \E c \in Ids : Alive /\ ConsumerClosed(c) /\ Keep
    \/ \E l \in Ids : Alive /\ LoopRequest(l) /\ Keep
    \/ \E l \in Ids : Alive /\ LoopTimer(l) /\ Keep
    \/ \E l \in Ids : Alive /\ CreateBackupBegin(l) /\ RLogBegin
    \/ \E l \in Ids : Alive /\ CreateBackupCopy(l, "ok") /\ Keep
    \/ \E l \in Ids : Alive /\ CreateBackupAppend(l) /\ Keep
    \/ \E l \in Ids : Alive /\ CreateBackupMarshal(l) /\ Keep
    \/ \E l \in Ids, b \in BOOLEAN :
          Alive /\ CreateBackupSave(l, b) /\ VLogSave(b)
    \/ \E l \in Ids : Alive /\ CreateBackupNotify(l) /\ Keep
    \/ Alive /\ Tick(RestartTime) /\ Keep

SpecSave == InitSave /\ [][NextSave]_vars

\* C34 (no two goroutines are inside saveMetadata at once, and whenever no
\* attempt is in flight and the last write worked, the metadata file holds
\* the whole in-memory history in its order).
C34_SavesExclusiveAndFull ==
    /\ Cardinality({l \in Ids : loops[l].pc = "write"}) <= 1
    /\ (InFlight = {} /\ hist.saved) => metaFile = Metadata

\* (the second half alone)
C34_FullHistorySaved ==
    (InFlight = {} /\ hist.saved) => metaFile = Metadata

\* C36 (every StartWatcher call returns: a call that is under way, holding
\* w.mu, eventually is over).
C36_StartReturns == (api # "idle") ~> (api = "idle")

\* C36 (no reachable state is a deadlock of StartWatcher and the loop:
\* StartWatcher waiting to send on the full channel with w.mu held, while
\* every loop waits for w.mu).
C36_NoStartDeadlock ==
    ~ /\ api = "send" /\ mu = "StartWatcher"
      /\ backupRequestChan = ChanCap
      /\ \A l \in Ids : loops[l].pc \in {"none", "lock"}

\* StartWatcher sent its request and returned, and the loop took it
C36_Witness ==
    /\ nStarted = 1 /\ api = "idle" /\ mu = "free"
    /\ hist.notified = 0
    /\ \E l \in Ids : Armed(l)

\* C37 (a StartWatcher call that returns an error has started no goroutine
\* and leaves the watcher as it found it: the step in which the error is
\* returned is the only step of the call, and it changes neither the
\* goroutines nor the subscription).
C37_FailedStartStartsNothing ==
    [][(/\ api' = "idle"
        /\ hist'.ret \in {"disabled", "already running", "compare error"}
        /\ (api # "idle" \/ hist'.ret # hist.ret)) =>
           /\ api = "idle"
           /\ UNCHANGED <<nStarted, consumers, loops, fsnotifyWatcher,
                          subs, backupRequestChan>>]_vars

\* C37 (as a state predicate: once StartWatcher has returned the error of
\* the startup comparison, no goroutine of the watcher exists)
C37_NoTaskAfterCompareError ==
    hist.ret = "compare error" =>
        \A i \in Ids : consumers[i].pc = "none" /\ loops[i].pc = "none"

\* A disabled watcher refused to start and has no goroutine
C37_Witness ==
    /\ hist.ret = "disabled" /\ api = "idle" /\ nStarted = 0
    /\ \A i \in Ids : consumers[i].pc = "none" /\ loops[i].pc = "none"

\* (C37 for the two errors of the checks on lines 121-127 alone)
C37_FailedCheckStartsNothing ==
    [][(/\ api' = "idle"
        /\ hist'.ret \in {"disabled", "already running"}
        /\ (api # "idle" \/ hist'.ret # hist.ret)) =>
           /\ api = "idle"
           /\ UNCHANGED <<nStarted, consumers, loops, fsnotifyWatcher,
                          subs, backupRequestChan>>]_vars

\* C38 (every record has the Path that the folder format gives for the
\* instant in its Timestamp; an attempt takes that instant once, in the
\* step in which it begins, before the collision guard and the copy, keeps
\* it to its end, copies into the folder of that name, and appends the
\* record made from it, however late the copy finishes).
C38_PathOfTimestamp ==
    [][/\ \A i \in DOMAIN Metadata' :
             Metadata'[i].Path = Format(Metadata'[i].Timestamp)
       /\ \A l \in Ids :
             /\ (loops[l].pc = "lock" /\ loops'[l].pc = "copy") =>
                   /\ loops'[l].ts = now
                   /\ ~PathExists(Format(now))
             /\ (loops[l].pc \in {"copy", "append", "save", "write"}) =>
                   loops'[l].ts = loops[l].ts
             /\ (loops[l].pc = "copy" /\ loops'[l].pc # "copy") =>
                   DOMAIN folders' \subseteq
                       DOMAIN folders \cup {Format(loops[l].ts)}
             /\ (loops[l].pc = "append" /\ loops'[l].pc # "append") =>
                   Metadata' = Append(Metadata,
                                  [Timestamp |-> loops[l].ts,
                                   Path |-> Format(loops[l].ts)])]_vars

\* An attempt appended its record at an instant whose folder name differs
\* from the one of the instant at which it began; the record and the folder
\* carry the earlier one.
C38_Witness ==
    \E l \in Ids :
       /\ loops[l].pc = "save"
       /\ loops[l].ts < now /\ Format(loops[l].ts) # Format(now)
       /\ Metadata[Len(Metadata)] = Backup(loops[l].ts)
       /\ Format(loops[l].ts) \in DOMAIN folders
       /\ Format(now) \notin DOMAIN folders

\* C39 (no two records of the history have the same Path).
C39_PathsDistinct ==
    \A i, j \in DOMAIN Metadata :
        Metadata[i].Path = Metadata[j].Path => i = j

\* C40 (for an observer registered since before the first start, the passes
\* it has received and the records appended since the start are the same
\* number, apart from the attempts that have appended and not notified yet:
\* every attempt that appends notifies once, whether or not its save
\* worked, and an attempt ended by the collision guard appends nothing and
\* notifies nobody).
C40_PassesEqualRecords ==
    \A o \in hist.watching :
        Appended = CurrentCount[o]
          + Cardinality({l \in Ids : loops[l].pc \in {"save", "write", "notify"}})

\* One attempt has appended and notified although its save failed,
\* another was ended by the collision guard, and nothing is in flight: one
\* record, one pass.
C40_Witness ==
    /\ rhist.aborted /\ ~hist.saved
    /\ Quiet /\ Appended = 1 /\ metaFile = <<>>
    /\ "o1" \in hist.watching /\ CurrentCount["o1"] = 1

====
